---- MODULE Spec2Model ----
(***************************************************************************)
(* mpatterns: regex validation of single values (Validator), of all the    *)
(* positional and keyword values of a call (PatternValidator), and of the  *)
(* arguments of a decorated function (ValidateDecorator).                  *)
(*                                                                         *)
(* A text is a sequence of one-character strings.  A value is either a     *)
(* str or an int; str() is modelled by what it does (decimal digits).      *)
(* A regular expression is the sequence of the tokens re compiles it to.   *)
(*                                                                         *)
(* The body of ValidateDecorator (wrap_func / wrap_args) is modelled as    *)
(* the nested closures it spells out.                                      *)
(***************************************************************************)
EXTENDS Integers, Sequences, FiniteSets

VARIABLES
    call,     \* the current call: which entry point, on what, with what
    out,      \* its outcome: pending, a returned value or a raised exception
    evald,    \* the elements converted to text and matched by the call, in order
    invoked,  \* the invocations of the wrapped function made by the call
    guard,    \* (type_class, _return, _raise) closed over by wrap_args
    hist,     \* how each completed call of the guarded function ended
    fcount    \* number of invocations of the wrapped function so far

vars == <<call, out, evald, invoked, guard, hist, fcount>>

---------------------------------------------------------------------------
(* Bounds of the model *)

MaxLen == 3      \* longest text drawn as an input of the matcher
MaxInt == 10     \* largest int drawn as an input
MaxValues == 3   \* most values (positional plus keyword) given to validate
MaxArgs == 2     \* most arguments (positional plus keyword) of a guarded call
MaxCalls == 2    \* most calls of one guarded function

---------------------------------------------------------------------------
(* Characters and texts *)

Digits == {"0", "1", "2", "3", "4", "5", "6", "7", "8", "9"}

Lower == {"a", "b", "c", "d", "e", "f", "g", "h", "i", "j", "k", "l", "m",
          "n", "o", "p", "q", "r", "s", "t", "u", "v", "w", "x", "y", "z"}

Upper == {"A", "B", "C", "D", "E", "F", "G", "H", "I", "J", "K", "L", "M",
          "N", "O", "P", "Q", "R", "S", "T", "U", "V", "W", "X", "Y", "Z"}

Newline == "\n"

\* the characters inputs are made of: one or two of each class the patterns
\* tell apart, the newline, and one character no pattern accepts
Alphabet == {"7", "a", "Z", "_", "$", Newline, "-"}

Texts(n) == UNION {[1..k -> Alphabet] : k \in 0..n}

---------------------------------------------------------------------------
(* Values and str() *)

StrVal(s) == [ty |-> "str", s |-> s, n |-> 0]
IntVal(n) == [ty |-> "int", s |-> <<>>, n |-> n]

DigitChar(d) ==
    CASE d = 0 -> "0" [] d = 1 -> "1" [] d = 2 -> "2" [] d = 3 -> "3"
      [] d = 4 -> "4" [] d = 5 -> "5" [] d = 6 -> "6" [] d = 7 -> "7"
      [] d = 8 -> "8" [] d = 9 -> "9"

RECURSIVE Decimal(_)
Decimal(n) == IF n < 10 THEN <<DigitChar(n)>>
              ELSE Decimal(n \div 10) \o <<DigitChar(n % 10)>>

\* str(element): a str is itself, an int its decimal text, signed if negative
Str(v) == IF v.ty = "str" THEN v.s
          ELSE IF v.n < 0 THEN <<"-">> \o Decimal(0 - v.n)
          ELSE Decimal(v.n)

---------------------------------------------------------------------------
(* Regular expressions: the patterns of the module and re.match *)

Bol == [t |-> "bol", cs |-> {}]                 \* ^
Eol == [t |-> "eol", cs |-> {}]                 \* $
One(cs) == [t |-> "set", cs |-> cs]             \* [...]
Star(cs) == [t |-> "star", cs |-> cs]           \* [...]*

ALPHANUMERIC_PATTERN ==
    <<Bol, One(Lower \cup Upper \cup {"_"}),
      Star(Lower \cup Upper \cup Digits \cup {"_", "$"}), Eol>>
NUMERIC_PATTERN == <<Star(Digits), Eol>>
ALPHA_PATTERN == <<Star(Lower \cup Upper \cup {"_"}), Eol>>

Patterns == {ALPHANUMERIC_PATTERN, NUMERIC_PATTERN, ALPHA_PATTERN}

\* Without re.MULTILINE, $ matches at the end of the text and just before
\* a newline that is the last character of the text.
AtEol(s, i) == i = Len(s) + 1 \/ (i = Len(s) /\ s[i] = Newline)

\* Does token k and what follows it match s from position i on?  A pattern
\* that is used up has matched: re.match does not ask for the end of s.
RECURSIVE MatchFrom(_, _, _, _)
MatchFrom(p, k, s, i) ==
    IF k > Len(p) THEN TRUE
    ELSE CASE p[k].t = "bol" -> i = 1 /\ MatchFrom(p, k + 1, s, i)
           [] p[k].t = "eol" -> AtEol(s, i) /\ MatchFrom(p, k + 1, s, i)
           [] p[k].t = "set" -> /\ i <= Len(s)
                                /\ s[i] \in p[k].cs
                                /\ MatchFrom(p, k + 1, s, i + 1)
           [] p[k].t = "star" -> \/ /\ i <= Len(s)
                                    /\ s[i] \in p[k].cs
                                    /\ MatchFrom(p, k, s, i + 1)
                                 \/ MatchFrom(p, k + 1, s, i)

\* bool(re.match(pattern, text)): the match is tried at position 0 only
ReMatch(p, s) == MatchFrom(p, 1, s, 1)

---------------------------------------------------------------------------
(* Outcomes of a call *)

None == [ty |-> "None"]
True == [ty |-> "bool", b |-> TRUE]
False == [ty |-> "bool", b |-> FALSE]
Bool(b) == IF b THEN True ELSE False

Pending == [kind |-> "pending", value |-> None, exc |-> "-"]
Return(v) == [kind |-> "return", value |-> v, exc |-> "-"]
Raise(e) == [kind |-> "raise", value |-> None, exc |-> e]

---------------------------------------------------------------------------
(* Validator *)

Validator(pattern_regex) == [pr |-> pattern_regex]

\* re.match takes a str: any other element is a TypeError
Validator_validate(self, element) ==
    IF element.ty = "str" THEN Return(Bool(ReMatch(self.pr, element.s)))
    ELSE Raise("TypeError")

---------------------------------------------------------------------------
(* PatternValidator and its three subclasses *)

PatternValidator(pattern_regex) == [validator |-> Validator(pattern_regex)]

\* as _validate_pattern, the element handed on without str()
_validate_pattern_no_str(self, element) ==
    Validator_validate(self.validator, element)

_validate_pattern(self, element) ==
    Validator_validate(self.validator, StrVal(Str(element)))

\* The list comprehension matches every element of args; the result is
\* not(False in list).  evald is the elements it converted and matched.
\* as _validate_patterns, stopping at the first element that fails
_validate_patterns_short(self, args) ==
    LET bad == {i \in 1..Len(args) :
                  _validate_pattern(self, args[i]) = Return(False)}
        first == CHOOSE i \in bad : \A j \in bad : i <= j
    IN  IF bad = {} THEN [value |-> True, evald |-> args]
        ELSE [value |-> False, evald |-> SubSeq(args, 1, first)]

_validate_patterns(self, args) ==
    LET list == [i \in 1..Len(args) |-> _validate_pattern(self, args[i])]
    IN  [value |-> Bool(~(\E i \in 1..Len(list) : list[i] = Return(False))),
         evald |-> args]

\* kwargs is the sequence kwargs.values().  `and` evaluates its right
\* operand only when the left one is true.
\* as PatternValidator.validate, the keyword values left out
PatternValidator_validate_args_only(self, args, kwargs) ==
    LET left == _validate_patterns(self, args)
    IN  [out |-> Return(left.value), evald |-> left.evald]

PatternValidator_validate(self, args, kwargs) ==
    LET left == _validate_patterns(self, args)
        right == _validate_patterns(self, kwargs)
    IN  IF left.value = True
        THEN [out |-> Return(right.value), evald |-> left.evald \o right.evald]
        ELSE [out |-> Return(left.value), evald |-> left.evald]

Classes == {"PatternValidator", "NumericValidator", "AlphaValidator",
            "AlphaNumericValidator"}
Named == Classes \ {"PatternValidator"}

\* obj.__init__(): the subclasses take no argument and pass their own
\* pattern on; PatternValidator.__init__ lacks its pattern_regex.
NumericValidator == PatternValidator(NUMERIC_PATTERN)
AlphaValidator == PatternValidator(ALPHA_PATTERN)
AlphaNumericValidator == PatternValidator(ALPHANUMERIC_PATTERN)

\* as Construct, PatternValidator.__init__ given a default pattern
Construct_default_pattern(cls) ==
    CASE cls = "NumericValidator" -> [raised |-> FALSE, obj |-> NumericValidator]
      [] cls = "AlphaValidator" -> [raised |-> FALSE, obj |-> AlphaValidator]
      [] cls = "AlphaNumericValidator" ->
             [raised |-> FALSE, obj |-> AlphaNumericValidator]
      [] cls = "PatternValidator" ->
             [raised |-> FALSE, obj |-> AlphaNumericValidator]

Construct(cls) ==
    CASE cls = "NumericValidator" -> [raised |-> FALSE, obj |-> NumericValidator]
      [] cls = "AlphaValidator" -> [raised |-> FALSE, obj |-> AlphaValidator]
      [] cls = "AlphaNumericValidator" ->
             [raised |-> FALSE, obj |-> AlphaNumericValidator]
      [] cls = "PatternValidator" ->
             [raised |-> TRUE, obj |-> PatternValidator(<<>>)]

PatternValidator_Validate(cls, args, kwargs) ==
    LET made == Construct(cls)
    IN  IF made.raised THEN [out |-> Raise("TypeError"), evald |-> <<>>]
        ELSE PatternValidator_validate(made.obj, args, kwargs)

---------------------------------------------------------------------------
(* ValidateDecorator and the three named decorators *)

ErrorKinds == {"DefaultException", "NumericValidatorException",
               "AlphaValidatorException", "AlphaNumericValidatorException"}

\* what the wrapped function returns: func is any function, so its result
\* is known only by the call that produced it
FuncResult(args, kwargs) == [ty |-> "result", args |-> args, kwargs |-> kwargs]

ValidateDecorator(type_class, ret, exc) ==
    [type_class |-> type_class, ret |-> ret, exc |-> exc,
     by |-> "ValidateDecorator"]

NumericValidateDecorator(ret) ==
    [ValidateDecorator("NumericValidator", ret, "NumericValidatorException")
        EXCEPT !.by = "NumericValidateDecorator"]

AlphaValidateDecorator(ret) ==
    [ValidateDecorator("AlphaValidator", ret, "AlphaValidatorException")
        EXCEPT !.by = "AlphaValidateDecorator"]

\* as AlphaNumericValidateDecorator, with the error kind of the alpha one
AlphaNumericValidateDecorator_alpha_exc(ret) ==
    [ValidateDecorator("AlphaNumericValidator", ret, "AlphaValidatorException")
        EXCEPT !.by = "AlphaNumericValidateDecorator"]

AlphaNumericValidateDecorator(ret) ==
    [ValidateDecorator("AlphaNumericValidator", ret,
                       "AlphaNumericValidatorException")
        EXCEPT !.by = "AlphaNumericValidateDecorator"]

\* as wrap_args, func called before the arguments are looked at
wrap_args_call_first(g, args, kwargs) ==
    LET passed == PatternValidator_Validate(g.type_class, args, kwargs)
        res == IF g.ret THEN Return(FuncResult(args, kwargs)) ELSE Return(None)
    IN  [out |-> IF passed.out.kind = "raise" THEN passed.out
                 ELSE IF passed.out.value = True THEN res
                 ELSE Raise(g.exc),
         evald |-> passed.evald,
         invoked |-> <<[args |-> args, kwargs |-> kwargs]>>]

\* as wrap_args, _res returned whatever _return is
wrap_args_always_return(g, args, kwargs) ==
    LET passed == PatternValidator_Validate(g.type_class, args, kwargs)
    IN  IF passed.out.kind = "raise"
        THEN [out |-> passed.out, evald |-> passed.evald, invoked |-> <<>>]
        ELSE IF passed.out.value = True
        THEN [out |-> Return(FuncResult(args, kwargs)),
              evald |-> passed.evald,
              invoked |-> <<[args |-> args, kwargs |-> kwargs]>>]
        ELSE [out |-> Raise(g.exc), evald |-> passed.evald, invoked |-> <<>>]

\* as wrap_args, a guard that stays shut once it has rejected a call
wrap_args_sticky(g, args, kwargs) ==
    LET passed == PatternValidator_Validate(g.type_class, args, kwargs)
    IN  IF passed.out.kind = "raise"
        THEN [out |-> passed.out, evald |-> passed.evald, invoked |-> <<>>]
        ELSE IF passed.out.value = True
                /\ ~(\E i \in 1..Len(hist) : hist[i] = "raise")
        THEN [out |-> IF g.ret THEN Return(FuncResult(args, kwargs))
                      ELSE Return(None),
              evald |-> passed.evald,
              invoked |-> <<[args |-> args, kwargs |-> kwargs]>>]
        ELSE [out |-> Raise(g.exc), evald |-> passed.evald, invoked |-> <<>>]

\* wrap_args(*args, **kwargs) of the function decorated under g: an
\* exception of type_class.Validate passes through; a function body that
\* ends without a return statement returns None.
wrap_args(g, args, kwargs) ==
    LET passed == PatternValidator_Validate(g.type_class, args, kwargs)
    IN  IF passed.out.kind = "raise"
        THEN [out |-> passed.out, evald |-> passed.evald, invoked |-> <<>>]
        ELSE IF passed.out.value = True
        THEN [out |-> IF g.ret THEN Return(FuncResult(args, kwargs))
                      ELSE Return(None),
              evald |-> passed.evald,
              invoked |-> <<[args |-> args, kwargs |-> kwargs]>>]
        ELSE [out |-> Raise(g.exc), evald |-> passed.evald, invoked |-> <<>>]

---------------------------------------------------------------------------
(* Inputs *)

Ints == {0 - 1} \cup 0..MaxInt
MatchValues == {StrVal(s) : s \in Texts(MaxLen)} \cup {IntVal(n) : n \in Ints}

\* the values calls are made with: "ab" (alphabetic), "a1" (an identifier
\* that is not alphabetic) and the int 1 (numeric once converted to text)
Samples == {StrVal(<<"a", "b">>), StrVal(<<"a", "1">>), IntVal(1)}

\* the values validate is given: those, and "12", "" and "_a9$"
PVSamples == Samples \cup {StrVal(<<"1", "2">>), StrVal(<<>>),
                           StrVal(<<"_", "a", "9", "$">>)}

\* every (args, kwargs) of at most n values of S in all
ArgsKwargs(S, n) ==
    UNION {UNION {[args : [1..k -> S], kwargs : [1..j -> S]] :
                    j \in 0..(n - k)} : k \in 0..n}

CallInputs == ArgsKwargs(Samples, MaxArgs)
PVInputs == ArgsKwargs(PVSamples, MaxValues)

NoGuard == [type_class |-> "-", ret |-> FALSE, exc |-> "-", by |-> "-"]

Guards ==
    {ValidateDecorator(c, r, e) : c \in Classes, r \in BOOLEAN, e \in ErrorKinds}
    \cup {NumericValidateDecorator(r) : r \in BOOLEAN}
    \cup {AlphaValidateDecorator(r) : r \in BOOLEAN}
    \cup {AlphaNumericValidateDecorator(r) : r \in BOOLEAN}

\* a call: the entry point, the class or the pattern of the object it is
\* made on, and its arguments
CallOf(fn, cls, pr, args, kwargs) ==
    [fn |-> fn, cls |-> cls, pr |-> pr, args |-> args, kwargs |-> kwargs]

Idle == CallOf("-", "-", <<>>, <<>>, <<>>)

---------------------------------------------------------------------------
(* Calls of a decorated function *)

Init ==
    /\ guard \in Guards
    /\ call = Idle
    /\ out = Pending
    /\ evald = <<>>
    /\ invoked = <<>>
    /\ hist = <<>>
    /\ fcount = 0

\* one call g(*args, **kwargs) of the decorated function, to its end
Call ==
    /\ Len(hist) < MaxCalls
    /\ \E c \in CallInputs :
         \E r \in {wrap_args(guard, c.args, c.kwargs)} :
             /\ call' = CallOf("wrap_args", guard.type_class, <<>>,
                               c.args, c.kwargs)
             /\ out' = r.out
             /\ evald' = r.evald
             /\ invoked' = r.invoked
             /\ hist' = Append(hist, r.out.kind)
             /\ fcount' = fcount + Len(r.invoked)
    /\ UNCHANGED guard

Next == Call

Spec == Init /\ [][Next]_vars

---------------------------------------------------------------------------
(* The matcher on one value: Validator.validate and _validate_pattern *)

InitMatch ==
    /\ call \in {CallOf(fn, "-", pr, <<v>>, <<>>) :
                    fn \in {"Validator.validate", "_validate_pattern"},
                    pr \in Patterns, v \in MatchValues}
    /\ out = Pending
    /\ evald = <<>>
    /\ invoked = <<>>
    /\ guard = NoGuard
    /\ hist = <<>>
    /\ fcount = 0

DoValidatorValidate ==
    /\ call.fn = "Validator.validate"
    /\ out = Pending
    /\ out' = Validator_validate(Validator(call.pr), call.args[1])
    /\ UNCHANGED <<call, evald, invoked, guard, hist, fcount>>

DoValidatePattern ==
    /\ call.fn = "_validate_pattern"
    /\ out = Pending
    /\ out' = _validate_pattern(PatternValidator(call.pr), call.args[1])
    /\ UNCHANGED <<call, evald, invoked, guard, hist, fcount>>

NextMatch == DoValidatorValidate \/ DoValidatePattern

SpecMatch == InitMatch /\ [][NextMatch]_vars

---------------------------------------------------------------------------
(* PatternValidator.validate on an instance and Validate on a class *)

InitPV ==
    /\ call \in {CallOf("validate", "-", pr, c.args, c.kwargs) :
                    pr \in Patterns, c \in PVInputs}
               \cup {CallOf("Validate", cls, <<>>, c.args, c.kwargs) :
                       cls \in Classes, c \in PVInputs}
    /\ out = Pending
    /\ evald = <<>>
    /\ invoked = <<>>
    /\ guard = NoGuard
    /\ hist = <<>>
    /\ fcount = 0

DoValidate ==
    /\ call.fn = "validate"
    /\ out = Pending
    /\ \E r \in {PatternValidator_validate(PatternValidator(call.pr),
                                            call.args, call.kwargs)} :
         /\ out' = r.out
         /\ evald' = r.evald
    /\ UNCHANGED <<call, invoked, guard, hist, fcount>>

DoClassValidate ==
    /\ call.fn = "Validate"
    /\ out = Pending
    /\ \E r \in {PatternValidator_Validate(call.cls, call.args, call.kwargs)} :
         /\ out' = r.out
         /\ evald' = r.evald
    /\ UNCHANGED <<call, invoked, guard, hist, fcount>>

NextPV == DoValidate \/ DoClassValidate

SpecPV == InitPV /\ [][NextPV]_vars

---------------------------------------------------------------------------
(* What the claims speak of *)

Done == out # Pending

Letters == Lower \cup Upper \cup {"_"}
IdentChars == Letters \cup Digits \cup {"$"}

OnlyOf(s, cs) == \A i \in 1..Len(s) : s[i] \in cs

IsIdentifier(s) ==
    /\ Len(s) >= 1
    /\ s[1] \in Letters
    /\ \A i \in 2..Len(s) : s[i] \in IdentChars

\* a text less the newline it ends with, if it ends with one
LessFinalNewline(s) ==
    IF Len(s) > 0 /\ s[Len(s)] = Newline THEN SubSeq(s, 1, Len(s) - 1) ELSE s

\* the texts each pattern accepts, said without the regular expression
Conforms(pr, s) ==
    CASE pr = NUMERIC_PATTERN -> OnlyOf(LessFinalNewline(s), Digits)
      [] pr = ALPHA_PATTERN -> OnlyOf(LessFinalNewline(s), Letters)
      [] pr = ALPHANUMERIC_PATTERN -> IsIdentifier(LessFinalNewline(s))

PatternOf(cls) ==
    CASE cls = "NumericValidator" -> NUMERIC_PATTERN
      [] cls = "AlphaValidator" -> ALPHA_PATTERN
      [] cls = "AlphaNumericValidator" -> ALPHANUMERIC_PATTERN

\* the text of every value of vs satisfies the pattern
AllSatisfy(pr, vs) == \A i \in 1..Len(vs) : ReMatch(pr, Str(vs[i]))

GuardedCallDone == call.fn = "wrap_args" /\ Done
HasPattern == guard.type_class \in Named
ArgsPass ==
    /\ AllSatisfy(PatternOf(guard.type_class), call.args)
    /\ AllSatisfy(PatternOf(guard.type_class), call.kwargs)

---------------------------------------------------------------------------
(* C1: a guarded call with an argument whose text fails the pattern of the
   validator kind raises the configured error kind and does not invoke the
   wrapped function, whatever _return is. *)
C1_RejectRaisesAndSkips ==
    (GuardedCallDone /\ HasPattern /\ ~ArgsPass) =>
        /\ out = Raise(guard.exc)
        /\ invoked = <<>>

C1_Witness ==
    /\ GuardedCallDone /\ HasPattern /\ ~ArgsPass
    /\ guard.ret
    /\ guard.type_class = "NumericValidator"
    /\ guard.exc = "DefaultException"
    /\ Len(call.kwargs) > 0
    /\ out = Raise("DefaultException")

(* C2: a guarded call whose arguments all satisfy the pattern invokes the
   wrapped function exactly once, with the arguments as they were given, and
   returns its result when _return is true and None when it is false. *)
C2_AcceptInvokesOnce ==
    (GuardedCallDone /\ HasPattern /\ ArgsPass) =>
        /\ invoked = <<[args |-> call.args, kwargs |-> call.kwargs]>>
        /\ out = IF guard.ret
                 THEN Return(FuncResult(call.args, call.kwargs))
                 ELSE Return(None)

C2_Witness ==
    /\ GuardedCallDone /\ HasPattern /\ ArgsPass
    /\ ~guard.ret
    /\ guard.type_class = "NumericValidator"
    /\ call.args = <<IntVal(1)>>
    /\ Len(call.kwargs) = 1
    /\ out = Return(None)
    /\ Len(invoked) = 1

(* C3: PatternValidator.validate returns true exactly when the text of
   every positional value and of every keyword value satisfies the pattern;
   with no value at all it returns true. *)
C3_ValidateIsConjunction ==
    (call.fn = "validate" /\ Done) =>
        out = Return(Bool(AllSatisfy(call.pr, call.args)
                          /\ AllSatisfy(call.pr, call.kwargs)))

C3_Witness ==
    /\ call.fn = "validate" /\ Done
    /\ Len(call.args) = 2
    /\ AllSatisfy(call.pr, call.args)
    /\ Len(call.kwargs) = 1
    /\ ~AllSatisfy(call.pr, call.kwargs)
    /\ out = Return(False)

(* C4: Validator.validate under the numeric pattern is true for every text
   of digits only and false for every text with any other character in it;
   likewise under the alpha pattern, with letters and underscore. *)
C4_DigitsOrLettersOnly ==
    (call.fn = "Validator.validate" /\ Done /\ call.args[1].ty = "str") =>
        /\ call.pr = NUMERIC_PATTERN =>
               out = Return(Bool(OnlyOf(call.args[1].s, Digits)))
        /\ call.pr = ALPHA_PATTERN =>
               out = Return(Bool(OnlyOf(call.args[1].s, Letters)))

(* C5: Validator.validate under the alphanumeric pattern is true exactly
   when the text is not empty, starts with a letter or underscore, and goes
   on with letters, digits, underscores and dollar signs only. *)
C5_IdentifierOnly ==
    (/\ call.fn = "Validator.validate" /\ Done /\ call.args[1].ty = "str"
     /\ call.pr = ALPHANUMERIC_PATTERN) =>
        out = Return(Bool(IsIdentifier(call.args[1].s)))

(* C6: a call rejected through one of the three named decorators raises the
   error kind of that decorator, and it is rejected exactly when an argument
   fails the pattern of that decorator's own validator. *)
OwnPattern(by) ==
    CASE by = "NumericValidateDecorator" -> NUMERIC_PATTERN
      [] by = "AlphaValidateDecorator" -> ALPHA_PATTERN
      [] by = "AlphaNumericValidateDecorator" -> ALPHANUMERIC_PATTERN

OwnKind(by) ==
    CASE by = "NumericValidateDecorator" -> "NumericValidatorException"
      [] by = "AlphaValidateDecorator" -> "AlphaValidatorException"
      [] by = "AlphaNumericValidateDecorator" -> "AlphaNumericValidatorException"

C6_NamedGuardOwnKind ==
    (GuardedCallDone /\ guard.by # "ValidateDecorator") =>
        /\ out.kind = "raise" <=>
               ~(/\ AllSatisfy(OwnPattern(guard.by), call.args)
                 /\ AllSatisfy(OwnPattern(guard.by), call.kwargs))
        /\ out.kind = "raise" => out.exc = OwnKind(guard.by)

C6_Witness ==
    /\ GuardedCallDone
    /\ guard.by = "AlphaNumericValidateDecorator"
    /\ call.args = <<StrVal(<<"a", "1">>), IntVal(1)>>
    /\ out = Raise("AlphaNumericValidatorException")

(* C7, as claimed: Validator.validate takes any value that has a text, an
   int as well as a str, and returns whether that text satisfies the
   pattern, without raising. *)
C7_AnyValueAccepted ==
    (call.fn = "Validator.validate" /\ Done) =>
        out = Return(Bool(ReMatch(call.pr, Str(call.args[1]))))

(* C7, amended: Validator.validate returns for a str whether it satisfies
   the pattern from position 0, and raises TypeError for a value that is not
   a str; _validate_pattern converts any value to its text first, and
   returns that boolean for the text without raising. *)
C7_StrOnlyConvertedAbove ==
    /\ (call.fn = "Validator.validate" /\ Done) =>
           out = IF call.args[1].ty = "str"
                 THEN Return(Bool(Conforms(call.pr, call.args[1].s)))
                 ELSE Raise("TypeError")
    /\ (call.fn = "_validate_pattern" /\ Done) =>
           out = Return(Bool(Conforms(call.pr, Str(call.args[1]))))

C7_Witness ==
    /\ call.fn = "Validator.validate" /\ Done
    /\ call.pr = NUMERIC_PATTERN
    /\ call.args[1] = IntVal(MaxInt)
    /\ out = Raise("TypeError")

(* C8: over the calls of one guarded function, a call is accepted exactly
   when its own arguments pass, whatever happened before, and the wrapped
   function has been invoked once per accepted call and not otherwise. *)
Accepted == {i \in 1..Len(hist) : hist[i] = "return"}

C8_StatelessGuard ==
    /\ fcount = Cardinality(Accepted)
    /\ GuardedCallDone =>
           /\ hist[Len(hist)] = out.kind
           /\ out.kind = "return" <=> (HasPattern /\ ArgsPass)

C8_Witness ==
    /\ GuardedCallDone
    /\ hist = <<"raise", "return">>
    /\ fcount = 1
    /\ Len(invoked) = 1

(* C9, as claimed: validate converts and matches every positional and every
   keyword value before it answers, also when an earlier one has failed. *)
C9_AllEvaluated ==
    (call.fn = "validate" /\ Done) => evald = call.args \o call.kwargs

(* C9, amended: validate converts and matches every positional value, also
   when an earlier one has failed; it converts and matches the keyword
   values, all of them, only when every positional value has passed. *)
C9_KeywordsOnlyAfterPositionals ==
    (call.fn = "validate" /\ Done) =>
        evald = IF AllSatisfy(call.pr, call.args)
                THEN call.args \o call.kwargs
                ELSE call.args

C9_Witness ==
    /\ call.fn = "validate" /\ Done
    /\ Len(call.args) = 2
    /\ ~ReMatch(call.pr, Str(call.args[1]))
    /\ Len(call.kwargs) = 1
    /\ evald = call.args

(* C10: Validate on one of the three named subclasses returns what validate
   returns on an instance of that subclass for the same arguments; on
   PatternValidator itself it ends in an error, not in a result. *)
InstanceOf(cls) ==
    CASE cls = "NumericValidator" -> NumericValidator
      [] cls = "AlphaValidator" -> AlphaValidator
      [] cls = "AlphaNumericValidator" -> AlphaNumericValidator

C10_BareValidate ==
    (call.fn = "Validate" /\ Done) =>
        IF call.cls \in Named
        THEN out = PatternValidator_validate(InstanceOf(call.cls),
                                             call.args, call.kwargs).out
        ELSE out.kind = "raise"

C10_Witness ==
    /\ call.fn = "Validate" /\ Done
    /\ call.cls = "PatternValidator"
    /\ Len(call.args) > 0
    /\ out = Raise("TypeError")

====
